---- MODULE Spec2Model ----
(***************************************************************************)
(* Offer selection engine of the HelloPrint quote optimiser                *)
(* (src/src/inference.py, called from src/src/app.py).                     *)
(*                                                                         *)
(* Numbers are fixed point:                                                *)
(*   unit_price                    integer cents                           *)
(*   quoted_margin_pct, p_win      units of 1/10000                        *)
(*   price_delta_pct, quantity_log units of 1/10000                        *)
(*   utility = p_win * margin      units of 1/100000000                    *)
(*   fields of the best summary    units of 1/1000 (3 decimal places)      *)
(* DataFrames are sequences of records; row k of the frame (0-based in     *)
(* pandas) is element k+1 of the sequence.  The column "idx" is the index  *)
(* that reset_index(drop=True) gives a row at line 55; the code drops it   *)
(* at line 80, the model keeps it to tell equal rows apart.                *)
(***************************************************************************)
EXTENDS Integers, Sequences, FiniteSets, TLC

VARIABLES
    artifact,       \* what joblib.load finds at model_path
    loaded,         \* TRUE once InferenceEngine.__init__ has returned an engine
    model,          \* self.model/self.prep : the loaded estimator artifact
    margin_floor,   \* self.margin_floor
    cbc_ties,       \* which of several optimal solutions this build of CBC returns
    sort_ties,      \* how this build's quicksort orders rows of equal utility
    offers,         \* the caller's offer batch (offers_df)
    outcome,        \* "none" | "ok" | the kind of the exception raised
    best,           \* best_offer returned by the last call
    ranked,         \* ranked DataFrame returned by the last call
    calls,          \* number of select_best_offer calls made with the current batch
    train_fe,       \* features.add_derived_columns applied to the offer rows
    infer_fe        \* InferenceEngine._add_derived applied to the same rows

vars == <<artifact, loaded, model, margin_floor, cbc_ties, sort_ties, offers, outcome, best, ranked, calls,
          train_fe, infer_fe>>

----------------------------------------------------------------------------
(* Bounds *)

MaxBatch == 3
MaxCalls == 2

(* Fixed-point scales *)
Scale4   == 10000
Round3P  == 10
Round3U  == 100000

----------------------------------------------------------------------------
(* Input universes *)

SupplierIds == {1, 2, 3}

\* each supplier's list price (cents) and lead time (days)
PriceOf(sid) == IF sid = 1 THEN 130 ELSE 150
LeadOf(sid)  == IF sid = 2 THEN 4 ELSE 5

Margins == {2000, 2806}
Floors  == {2000, 2500}

\* the quantity of the request, shared by all offers of a batch
RfqQuantity == 1000

Offer(sid, price, lead, margin) ==
    [supplier_id |-> sid, unit_price |-> price,
     lead_time_days |-> lead, quoted_margin_pct |-> margin, quantity |-> RfqQuantity]

Offers == { Offer(s, PriceOf(s), LeadOf(s), m) : s \in SupplierIds, m \in Margins }

\* offers that break the documented ranges (negative price, negative lead time)
RawOffers == { Offer(1, p, l, 2806) : p \in {-130, 130}, l \in {-1, 4} }

----------------------------------------------------------------------------
(* Helpers on integers and sequences *)

Min(S) == CHOOSE x \in S : \A y \in S : x <= y
Max(S) == CHOOSE x \in S : \A y \in S : x >= y

\* quotient rounded towards minus infinity, for either sign of the divisor
FloorDiv(a, b) == IF b > 0 THEN a \div b ELSE (0 - a) \div (0 - b)

\* f[1] + ... + f[n]
RECURSIVE SumOver(_, _)
SumOver(f, n) == IF n = 0 THEN 0 ELSE f[n] + SumOver(f, n - 1)

RECURSIVE Pow2(_)
Pow2(n) == IF n = 0 THEN 1 ELSE 2 * Pow2(n - 1)

\* np.log1p on the quantities that occur, in units of 1/10000
Log1p(q) == IF q = 500 THEN 62166 ELSE IF q = 1000 THEN 69088 ELSE 0

\* round(v / d) to the nearest integer, halves to even (Python round)
RoundHalfEven(v, d) ==
    LET q == v \div d
        r == v % d
    IN  IF 2 * r < d THEN q
        ELSE IF 2 * r > d THEN q + 1
        ELSE IF q % 2 = 0 THEN q ELSE q + 1

----------------------------------------------------------------------------
(* InferenceEngine._add_derived *)

\* variant: deltas taken against the first row of the frame, not the minimum
AddDerivedFirstRow(df) ==
    IF Len(df) = 0 THEN df
    ELSE
    LET row(i) == [ price_delta_pct |->
                        FloorDiv(df[i].unit_price * Scale4, df[1].unit_price) - Scale4,
                    lead_delta_days |-> df[i].lead_time_days - df[1].lead_time_days,
                    quantity_log    |-> Log1p(df[i].quantity) ] @@ df[i]
    IN  [ i \in 1..Len(df) |-> row(i) ]

\* variant: the price ratio and the lead delta overwrite the raw columns
AddDerivedOverwriting(df) ==
    IF Len(df) = 0 THEN df
    ELSE
    LET minPrice == Min({ df[i].unit_price : i \in 1..Len(df) })
        minLead  == Min({ df[i].lead_time_days : i \in 1..Len(df) })
        row(i)   == [ unit_price      |-> FloorDiv(df[i].unit_price * Scale4, minPrice),
                      lead_time_days  |-> df[i].lead_time_days - minLead,
                      price_delta_pct |-> FloorDiv(df[i].unit_price * Scale4, minPrice) - Scale4,
                      lead_delta_days |-> df[i].lead_time_days - minLead,
                      quantity_log    |-> Log1p(df[i].quantity) ] @@ df[i]
    IN  [ i \in 1..Len(df) |-> row(i) ]

AddDerived(df) ==
    IF Len(df) = 0 THEN df
    ELSE
    LET minPrice == Min({ df[i].unit_price : i \in 1..Len(df) })
        minLead  == Min({ df[i].lead_time_days : i \in 1..Len(df) })
        row(i)   == [ price_delta_pct |-> FloorDiv(df[i].unit_price * Scale4, minPrice) - Scale4,
                      lead_delta_days |-> df[i].lead_time_days - minLead,
                      quantity_log    |-> Log1p(df[i].quantity) ] @@ df[i]
    IN  [ i \in 1..Len(df) |-> row(i) ]

----------------------------------------------------------------------------
(* features.add_derived_columns: the minima are taken within each deal_id  *)

\* variant: transform("first"), the baseline is the first row of each deal
add_derived_columns_first(df) ==
    LET first(i) == Min({ j \in 1..Len(df) : df[j].deal_id = df[i].deal_id })
        row(i) == [ price_delta_pct |->
                        FloorDiv(df[i].unit_price * Scale4, df[first(i)].unit_price) - Scale4,
                    lead_delta_days |-> df[i].lead_time_days - df[first(i)].lead_time_days,
                    quantity_log    |-> Log1p(df[i].quantity) ] @@ df[i]
    IN  [ i \in 1..Len(df) |-> row(i) ]

add_derived_columns(df) ==
    LET group(i)    == { j \in 1..Len(df) : df[j].deal_id = df[i].deal_id }
        minPrice(i) == Min({ df[j].unit_price : j \in group(i) })
        minLead(i)  == Min({ df[j].lead_time_days : j \in group(i) })
        row(i) == [ price_delta_pct |->
                        FloorDiv(df[i].unit_price * Scale4, minPrice(i)) - Scale4,
                    lead_delta_days |-> df[i].lead_time_days - minLead(i),
                    quantity_log    |-> Log1p(df[i].quantity) ] @@ df[i]
    IN  [ i \in 1..Len(df) |-> row(i) ]

----------------------------------------------------------------------------
(* The estimator artifact: a rules table over the derived features         *)

EstimatorKey(row) == <<row.price_delta_pct = 0, row.lead_delta_days = 0>>

FlatEstimator == [ k \in BOOLEAN \X BOOLEAN |-> 5000 ]

RulesEstimator ==
    [ k \in BOOLEAN \X BOOLEAN |->
        IF k = <<TRUE, TRUE>> THEN 9000
        ELSE IF k = <<TRUE, FALSE>> THEN 4000
        ELSE IF k = <<FALSE, TRUE>> THEN 5000
        ELSE 4567 ]

Estimators == {FlatEstimator, RulesEstimator}

\* InferenceEngine.predict_prob; the transform rejects a frame without rows
PredictProb(df) ==
    LET df_fe == AddDerived(df)
    IN  IF Len(df_fe) = 0
        THEN [status |-> "ValueError", proba |-> <<>>]
        ELSE LET p(i) == model[EstimatorKey(df_fe[i])]
             IN  [status |-> "ok", proba |-> [ i \in 1..Len(df_fe) |-> p(i) ]]

----------------------------------------------------------------------------
(* The 0/1 program of select_best_offer, lines 63-74                       *)

XVectors(df) == [ 1..Len(df) -> {0, 1} ]

Objective(df, x) ==
    LET term(i) == df[i].utility * x[i] IN SumOver([ i \in 1..Len(df) |-> term(i) ], Len(df))

\* variant: the margin constraint is left out of the program
MarginConstraintDropped(df, x, floor) == TRUE

MarginConstraint(df, x, floor) ==
    LET term(i) == df[i].quoted_margin_pct * x[i]
    IN  SumOver([ i \in 1..Len(df) |-> term(i) ], Len(df)) >= floor

\* variant: the choose-one constraint written as "at least one"
ChooseAtLeastOne(df, x) == SumOver(x, Len(df)) >= 1

ChooseOneConstraint(df, x) == SumOver(x, Len(df)) = 1

Feasible(df, floor) ==
    { x \in XVectors(df) : MarginConstraint(df, x, floor) /\ ChooseOneConstraint(df, x) }

Optimal(df, floor) ==
    LET feas == Feasible(df, floor)
        top  == Max({ Objective(df, y) : y \in feas })
    IN  { x \in feas : Objective(df, x) = top }

\* orders the 0/1 vectors; on unit vectors it is the order of the chosen index
Weight(df, x) ==
    LET term(i) == x[i] * Pow2(i - 1) IN SumOver([ i \in 1..Len(df) |-> term(i) ], Len(df))

\* variant: an infeasible program is solved again without the floor
SolveRelaxed(df, floor) ==
    LET strict == Optimal(df, floor)
        opt    == IF strict = {} THEN Optimal(df, 0) ELSE strict
        w      == IF cbc_ties = "lowest"
                  THEN Min({ Weight(df, y) : y \in opt })
                  ELSE Max({ Weight(df, y) : y \in opt })
    IN  [status |-> "Optimal", x |-> CHOOSE x \in opt : Weight(df, x) = w]

\* variant: the pick among optimal vectors changes from one call to the next
SolveAlternating(df, floor) ==
    LET opt == Optimal(df, floor)
    IN  IF opt = {}
        THEN [status |-> "Infeasible", x |-> <<>>]
        ELSE [status |-> "Optimal",
              x |-> LET w == IF calls % 2 = 0
                                 THEN Min({ Weight(df, y) : y \in opt })
                                 ELSE Max({ Weight(df, y) : y \in opt })
                    IN  CHOOSE x \in opt : Weight(df, x) = w]

\* prob.solve(PULP_CBC_CMD): the status and, when optimal, one optimal vector
Solve(df, floor) ==
    LET opt == Optimal(df, floor)
    IN  IF opt = {}
        THEN [status |-> "Infeasible", x |-> <<>>]
        ELSE [status |-> "Optimal",
              x |-> LET w == IF cbc_ties = "lowest"
                                 THEN Min({ Weight(df, y) : y \in opt })
                                 ELSE Max({ Weight(df, y) : y \in opt })
                    IN  CHOOSE x \in opt : Weight(df, x) = w]

----------------------------------------------------------------------------
(* df.sort_values("utility", ascending=False).reset_index(drop=True)       *)

SortsBefore(df, i, j) ==
    \/ df[i].utility > df[j].utility
    \/ /\ df[i].utility = df[j].utility
       /\ IF sort_ties = "kept" THEN i < j ELSE i > j

SortValues(df) ==
    LET rank(i) == Cardinality({ j \in 1..Len(df) : SortsBefore(df, j, i) })
        row(k)  == df[CHOOSE i \in 1..Len(df) : rank(i) = k - 1]
    IN  [ i \in 1..Len(df) |-> row(i) ]

----------------------------------------------------------------------------
(* InferenceEngine.select_best_offer                                       *)

NoBest == [supplier_id |-> 0, p_win |-> 0, margin_pct |-> 0, utility |-> 0]

Failure(kind) == [outcome |-> kind, best |-> NoBest, ranked |-> <<>>]

\* offers.copy().reset_index(drop=True)
ResetIndex(batch) ==
    LET row(i) == [idx |-> i - 1] @@ batch[i] IN [ i \in 1..Len(batch) |-> row(i) ]

\* variant: utility computed from the 3-decimal roundings of p_win and margin
ScoreFromRounded(df, proba) ==
    LET row(i) == [p_win   |-> proba[i],
                   utility |-> RoundHalfEven(proba[i], Round3P)
                               * RoundHalfEven(df[i].quoted_margin_pct, Round3P) * 100] @@ df[i]
    IN  [ i \in 1..Len(df) |-> row(i) ]

\* lines 59-60: the p_win and utility columns
Score(df, proba) ==
    LET row(i) == [p_win |-> proba[i], utility |-> proba[i] * df[i].quoted_margin_pct] @@ df[i]
    IN  [ i \in 1..Len(df) |-> row(i) ]

\* line 79: the selected column
MarkSelected(df, x) ==
    LET row(i) == [selected |-> x[i]] @@ df[i] IN [ i \in 1..Len(df) |-> row(i) ]

\* lines 83-88: the summary of one row
BestOffer(best_row) ==
    [supplier_id |-> best_row.supplier_id,
     p_win       |-> RoundHalfEven(best_row.p_win, Round3P),
     margin_pct  |-> RoundHalfEven(best_row.quoted_margin_pct, Round3P),
     utility     |-> RoundHalfEven(best_row.utility, Round3U)]

\* variant: the summary is taken from the top row of the ranking
FinishTopRow(df, x) ==
    LET sorted == SortValues(MarkSelected(df, x))
    IN  [outcome |-> "ok", best |-> BestOffer(sorted[1]), ranked |-> sorted]

\* lines 79-89: mark, sort, summarise
Finish(df, x) ==
    LET sorted == SortValues(MarkSelected(df, x))
        sel    == { k \in 1..Len(sorted) : sorted[k].selected = 1 }
    IN  IF sel = {} THEN Failure("IndexError")
        ELSE [outcome |-> "ok", best |-> BestOffer(sorted[Min(sel)]), ranked |-> sorted]

select_best_offer(batch) ==
    LET df    == AddDerived(ResetIndex(batch))
        pp    == PredictProb(df)
    IN  IF pp.status # "ok" THEN Failure(pp.status)
        ELSE LET scored == Score(df, pp.proba)
                 sol    == Solve(scored, margin_floor)
             IN  IF sol.status # "Optimal" THEN Failure("RuntimeError")
                 ELSE Finish(scored, sol.x)

----------------------------------------------------------------------------
(* State machine *)

Init ==
    /\ artifact = "valid"
    /\ loaded = TRUE
    /\ model \in Estimators
    /\ margin_floor \in Floors
    /\ cbc_ties \in {"lowest", "highest"}
    /\ sort_ties \in {"kept", "reversed"}
    /\ offers = <<>>
    /\ outcome = "none"
    /\ best = NoBest
    /\ ranked = <<>>
    /\ calls = 0
    /\ train_fe = <<>>
    /\ infer_fe = <<>>

engine == <<artifact, loaded, model, margin_floor, cbc_ties, sort_ties>>

derivation == <<train_fe, infer_fe>>

\* no offer of the batch so far equals o in every column
NotYetIn(batch, o) == \A i \in 1..Len(batch) : batch[i] # o

\* the caller appends one more offer to the batch it is building (mock_offers)
AddOffer ==
    /\ outcome = "none"
    /\ Len(offers) < MaxBatch
    /\ \E o \in Offers : NotYetIn(offers, o) /\ offers' = Append(offers, o)
    /\ UNCHANGED <<engine, outcome, best, ranked, calls, derivation>>

\* the same, for a caller that does not keep to the documented ranges
AddRawOffer ==
    /\ outcome = "none"
    /\ Len(offers) < MaxBatch
    /\ \E o \in RawOffers : NotYetIn(offers, o) /\ offers' = Append(offers, o)
    /\ UNCHANGED <<engine, outcome, best, ranked, calls, derivation>>

\* best, ranked = engine.select_best_offer(offers_df); the caller may repeat it
SelectBestOffer ==
    /\ loaded
    /\ calls < MaxCalls
    /\ LET res == select_best_offer(offers)
       IN  /\ outcome' = res.outcome
           /\ best' = res.best
           /\ ranked' = res.ranked
    /\ calls' = calls + 1
    /\ UNCHANGED <<engine, offers, derivation>>

\* the caller drops the results and starts a new batch
NewRequest ==
    /\ outcome # "none"
    /\ offers' = <<>>
    /\ outcome' = "none"
    /\ best' = NoBest
    /\ ranked' = <<>>
    /\ calls' = 0
    /\ UNCHANGED <<engine, derivation>>

Next == AddOffer \/ SelectBestOffer \/ NewRequest

Spec == Init /\ [][Next]_vars

NextRaw == AddRawOffer \/ SelectBestOffer \/ NewRequest

SpecRaw == Init /\ [][NextRaw]_vars

----------------------------------------------------------------------------
(* Engine construction, InferenceEngine.__init__                           *)

\* a missing file, a file that does not unpickle, a pipeline without the
\* "prep" or "clf" step
Artifacts == {"valid", "missing", "corrupt", "incompatible"}

\* the exceptions lines 28-30 let through for each artifact
LoadErrors(a) ==
    IF a = "missing" THEN {"FileNotFoundError"}
    ELSE IF a = "corrupt" THEN {"UnpicklingError", "EOFError"}
    ELSE IF a = "incompatible" THEN {"KeyError"}
    ELSE {}

\* before the engine is constructed
InitLoad ==
    /\ artifact \in Artifacts
    /\ loaded = FALSE
    /\ model \in Estimators
    /\ margin_floor \in Floors
    /\ cbc_ties \in {"lowest", "highest"}
    /\ sort_ties \in {"kept", "reversed"}
    /\ offers = <<>>
    /\ outcome = "none"
    /\ best = NoBest
    /\ ranked = <<>>
    /\ calls = 0
    /\ train_fe = <<>>
    /\ infer_fe = <<>>

\* engine = InferenceEngine(MODEL_PATH, margin_floor=margin_floor)
Construct ==
    /\ ~loaded
    /\ outcome = "none"
    /\ IF artifact = "valid"
       THEN loaded' = TRUE /\ outcome' = outcome
       ELSE loaded' = FALSE /\ outcome' \in LoadErrors(artifact)
    /\ UNCHANGED <<artifact, model, margin_floor, cbc_ties, sort_ties,
                   offers, best, ranked, calls, derivation>>

NextLoad == Construct \/ AddOffer \/ AddRawOffer \/ SelectBestOffer \/ NewRequest

SpecLoad == InitLoad /\ [][NextLoad]_vars

----------------------------------------------------------------------------
(* Training-time and inference-time derivation on the same offer rows      *)

DealIds == {1, 2}

\* the quantity is an attribute of the deal
QuantityOf(deal) == IF deal = 1 THEN 500 ELSE 1000

HistoryPrices == {130, 150}
HistoryLeads  == {4, 5}

\* one row of load_raw(): an offer joined with its deal
HistoryOffers ==
    { [deal_id |-> d, unit_price |-> p, lead_time_days |-> l, quantity |-> QuantityOf(d)] :
        d \in DealIds, p \in HistoryPrices, l \in HistoryLeads }

AddHistoryOffer ==
    /\ train_fe = <<>>
    /\ Len(offers) < MaxBatch
    /\ \E o \in HistoryOffers : NotYetIn(offers, o) /\ offers' = Append(offers, o)
    /\ UNCHANGED <<engine, outcome, best, ranked, calls, derivation>>

\* prepare_xy derives the training features; _add_derived is given the same rows
DeriveFeatures ==
    /\ Len(offers) >= 1
    /\ train_fe = <<>>
    /\ train_fe' = add_derived_columns(offers)
    /\ infer_fe' = AddDerived(offers)
    /\ UNCHANGED <<engine, offers, outcome, best, ranked, calls>>

NewFrame ==
    /\ train_fe # <<>>
    /\ offers' = <<>>
    /\ train_fe' = <<>>
    /\ infer_fe' = <<>>
    /\ UNCHANGED <<engine, outcome, best, ranked, calls>>

NextDerive == AddHistoryOffer \/ DeriveFeatures \/ NewFrame

SpecDerive == Init /\ [][NextDerive]_vars

----------------------------------------------------------------------------
(* Vocabulary of the properties *)

Called == outcome # "none"

Rk == 1..Len(ranked)

SelectedRows == { k \in Rk : ranked[k].selected = 1 }

MeetsFloor(row) == row.quoted_margin_pct >= margin_floor

AllBelowFloor ==
    /\ Len(offers) >= 1
    /\ \A i \in 1..Len(offers) : offers[i].quoted_margin_pct < margin_floor

\* the three raw columns and the supplier of a row, as the caller supplied them
RawOf(row) ==
    Offer(row.supplier_id, row.unit_price, row.lead_time_days, row.quoted_margin_pct)

\* the derived columns of the caller's batch
Derived == AddDerived(ResetIndex(offers))

ZeroPriceDelta == { i \in 1..Len(Derived) : Derived[i].price_delta_pct = 0 }
ZeroLeadDelta  == { i \in 1..Len(Derived) : Derived[i].lead_delta_days = 0 }

InvalidBatch ==
    \/ Len(offers) = 0
    \/ \E i \in 1..Len(offers) : offers[i].unit_price < 0 \/ offers[i].lead_time_days < 0

----------------------------------------------------------------------------
(* C1: after a successful call the selected row meets the margin floor and *)
(* its utility, p_win * quoted_margin_pct, is at least the utility of      *)
(* every row of the batch that meets the floor; a row below the floor is   *)
(* not selected even if its utility is higher.                             *)
C1_SelectedIsBestFeasible ==
    outcome = "ok" =>
        /\ SelectedRows # {}
        /\ \A k \in SelectedRows :
              /\ MeetsFloor(ranked[k])
              /\ ranked[k].utility = ranked[k].p_win * ranked[k].quoted_margin_pct
              /\ \A j \in Rk : MeetsFloor(ranked[j]) => ranked[k].utility >= ranked[j].utility

\* a row below the floor has the highest utility and another row is selected
C1_Witness ==
    /\ outcome = "ok"
    /\ \E k \in SelectedRows : \E j \in Rk :
          /\ ~MeetsFloor(ranked[j])
          /\ ranked[j].utility > ranked[k].utility

(* C2: when every offer of a non-empty batch is below the margin floor the *)
(* call fails with the infeasibility error ("No feasible offer meets       *)
(* margin floor") and returns neither a best offer nor a ranked table.     *)
C2_InfeasibleWhenAllBelowFloor ==
    (Called /\ AllBelowFloor) =>
        /\ outcome = "RuntimeError"
        /\ best = NoBest
        /\ ranked = <<>>

C2_Witness ==
    /\ outcome = "RuntimeError"
    /\ Len(offers) >= 2
    /\ AllBelowFloor

(* C3: a successful call returns a ranked table with exactly one row whose *)
(* selected is 1 and all other rows 0; a failed call returns no table and  *)
(* no best offer, and the caller's batch never carries a selected column.  *)
C3_ExactlyOneSelected ==
    /\ outcome = "ok" =>
          /\ Cardinality(SelectedRows) = 1
          /\ \A k \in Rk : ranked[k].selected \in {0, 1}
    /\ outcome # "ok" => (ranked = <<>> /\ best = NoBest)
    /\ \A i \in 1..Len(offers) : "selected" \notin DOMAIN offers[i]

C3_Witness ==
    /\ outcome = "ok"
    /\ Len(ranked) = MaxBatch
    /\ Cardinality(SelectedRows) = 1

(* C4: when several rows that meet the floor share the maximum utility,    *)
(* the selected row is the one with the lowest input index.                *)
C4_LowestIndexOnTies ==
    outcome = "ok" =>
        \A k \in SelectedRows : \A j \in Rk :
            (MeetsFloor(ranked[j]) /\ ranked[j].utility = ranked[k].utility)
                => ranked[k].idx <= ranked[j].idx

(* C5: after a successful call the ranked table is a permutation of the    *)
(* input rows, its utility is non-increasing from top to bottom, and rows  *)
(* of equal utility keep their input order.                                *)
C5_RankedIsStableSort ==
    outcome = "ok" =>
        /\ Len(ranked) = Len(offers)
        /\ { ranked[k].idx : k \in Rk } = 0..(Len(offers) - 1)
        /\ \A k \in Rk : RawOf(ranked[k]) = offers[ranked[k].idx + 1]
        /\ \A k \in Rk : \A j \in Rk : k < j => ranked[k].utility >= ranked[j].utility
        /\ \A k \in Rk : \A j \in Rk :
              (k < j /\ ranked[k].utility = ranked[j].utility) => ranked[k].idx < ranked[j].idx

(* C6 as stated: after a call with a non-empty batch with positive prices and            *)
(* non-negative lead times the derived deltas are all >= 0, exactly one    *)
(* row has price_delta_pct = 0 and exactly one row has lead_delta_days = 0.*)
C6_ExactlyOneZeroDelta ==
    (Called /\ Len(offers) >= 1) =>
        /\ \A i \in 1..Len(Derived) :
              Derived[i].price_delta_pct >= 0 /\ Derived[i].lead_delta_days >= 0
        /\ Cardinality(ZeroPriceDelta) = 1
        /\ Cardinality(ZeroLeadDelta) = 1

(* C6 amended: after a call with a non-empty batch of positive prices and  *)
(* non-negative lead times the derived deltas are all >= 0, and the rows with           *)
(* price_delta_pct = 0 are exactly the rows at the minimum unit_price (at  *)
(* least one), likewise lead_delta_days = 0 and the minimum lead time; the *)
(* ranked table of a successful call carries these values.                 *)
C6_AtLeastOneZeroDelta ==
    (Called /\ Len(offers) >= 1) =>
        /\ \A i \in 1..Len(Derived) :
              Derived[i].price_delta_pct >= 0 /\ Derived[i].lead_delta_days >= 0
        /\ ZeroPriceDelta # {}
        /\ ZeroLeadDelta # {}
        /\ \A i \in 1..Len(offers) :
              /\ i \in ZeroPriceDelta <=>
                    \A j \in 1..Len(offers) : offers[i].unit_price <= offers[j].unit_price
              /\ i \in ZeroLeadDelta <=>
                    \A j \in 1..Len(offers) : offers[i].lead_time_days <= offers[j].lead_time_days
        /\ outcome = "ok" =>
              \A k \in Rk :
                 /\ ranked[k].price_delta_pct = Derived[ranked[k].idx + 1].price_delta_pct
                 /\ ranked[k].lead_delta_days = Derived[ranked[k].idx + 1].lead_delta_days

\* a scored batch in which two rows share the minimum price and one is dearer
C6_Witness ==
    /\ outcome = "ok"
    /\ Cardinality({ k \in Rk : ranked[k].price_delta_pct = 0 }) = 2
    /\ \E k \in Rk : ranked[k].price_delta_pct > 0
    /\ \E k \in Rk : ranked[k].lead_delta_days > 0

(* C7: a call with an empty batch or with a negative unit_price or         *)
(* lead_time_days fails with an input error before anything is scored or   *)
(* optimised: it returns no best offer and no ranked table.                *)
C7_InvalidInputRejected ==
    (Called /\ InvalidBatch) =>
        /\ outcome \in {"InvalidInput", "ValueError"}
        /\ best = NoBest
        /\ ranked = <<>>

SingleFeasibleOffer ==
    /\ Len(offers) = 1
    /\ offers[1].quoted_margin_pct >= margin_floor

(* C9 as stated: for a batch of one offer whose margin is at least the     *)
(* floor the call succeeds, best.supplier_id is that offer's supplier and  *)
(* the utility reported in best equals the reported p_win times the        *)
(* reported margin_pct.                                                    *)
C9_ReportedUtilityIsReportedProduct ==
    (Called /\ SingleFeasibleOffer) =>
        /\ outcome = "ok"
        /\ best.supplier_id = offers[1].supplier_id
        /\ best.utility * 1000 = best.p_win * best.margin_pct

(* C9 amended: for a batch of one offer whose margin is at least the floor *)
(* (equal included) the call succeeds, best.supplier_id is that offer's    *)
(* supplier, the row's utility is its unrounded p_win times its unrounded  *)
(* quoted_margin_pct, and best.utility is that product rounded to 3        *)
(* decimal places.                                                         *)
C9_ReportedUtilityIsRoundedProduct ==
    (Called /\ SingleFeasibleOffer) =>
        /\ outcome = "ok"
        /\ Len(ranked) = 1
        /\ best.supplier_id = offers[1].supplier_id
        /\ ranked[1].quoted_margin_pct = offers[1].quoted_margin_pct
        /\ ranked[1].utility = ranked[1].p_win * offers[1].quoted_margin_pct
        /\ best.utility =
              RoundHalfEven(ranked[1].p_win * offers[1].quoted_margin_pct, Round3U)

\* a single offer whose margin equals the floor was selected
C9_Witness ==
    /\ Called
    /\ SingleFeasibleOffer
    /\ offers[1].quoted_margin_pct = margin_floor
    /\ outcome = "ok"
    /\ best.utility > 0

\* b is v / d rounded to the nearest integer
Nearest(b, v, d) == 2 * (v - b * d) <= d /\ 2 * (b * d - v) <= d

\* the scored batch before the optimisation, in input order
ScoredInput == Score(Derived, PredictProb(Derived).proba)

(* C10: after a successful call best describes the selected row of ranked: *)
(* its supplier_id is that row's, and its p_win, margin_pct and utility    *)
(* are that row's p_win, quoted_margin_pct and utility rounded to 3        *)
(* decimal places; every row of ranked keeps the unrounded p_win,          *)
(* quoted_margin_pct and utility that scoring gave it.                     *)
C10_BestSummarisesSelectedRow ==
    outcome = "ok" =>
        /\ \E k \in SelectedRows :
              /\ best.supplier_id = ranked[k].supplier_id
              /\ Nearest(best.p_win, ranked[k].p_win, Round3P)
              /\ Nearest(best.margin_pct, ranked[k].quoted_margin_pct, Round3P)
              /\ Nearest(best.utility, ranked[k].utility, Round3U)
        /\ \A k \in Rk :
              /\ ranked[k].p_win = ScoredInput[ranked[k].idx + 1].p_win
              /\ ranked[k].utility = ScoredInput[ranked[k].idx + 1].utility
              /\ ranked[k].quoted_margin_pct = offers[ranked[k].idx + 1].quoted_margin_pct

\* the selected row is not the top row and rounding changed its margin
C10_Witness ==
    /\ outcome = "ok"
    /\ \E k \in SelectedRows :
          /\ k > 1
          /\ best.supplier_id # ranked[1].supplier_id
          /\ best.margin_pct * Round3P # ranked[k].quoted_margin_pct

\* the exception kinds that stand for each failure kind of the taxonomy
InvalidInputKinds   == {"InvalidInput", "ValueError"}
ModelLoadErrorKinds == {"ModelLoadError", "FileNotFoundError", "UnpicklingError",
                        "EOFError", "KeyError"}
InfeasibleKinds     == {"Infeasible", "RuntimeError"}

(* C11: the three failure kinds reach the caller as three distinguishable  *)
(* errors: a call with an invalid batch fails with the invalid-input       *)
(* error, a missing, corrupt or incompatible artifact makes construction   *)
(* fail with the model-load error, a valid batch with no offer at the      *)
(* floor fails with the infeasibility error, and no exception kind stands  *)
(* for two of them.                                                        *)
C11_ThreeDistinctErrors ==
    /\ InvalidInputKinds \cap ModelLoadErrorKinds = {}
    /\ InvalidInputKinds \cap InfeasibleKinds = {}
    /\ ModelLoadErrorKinds \cap InfeasibleKinds = {}
    /\ (loaded /\ Called /\ InvalidBatch) => outcome \in InvalidInputKinds
    /\ (artifact # "valid" /\ Called) => (~loaded /\ outcome \in ModelLoadErrorKinds)
    /\ (loaded /\ Called /\ ~InvalidBatch /\ AllBelowFloor) => outcome \in InfeasibleKinds
    /\ (loaded /\ Called /\ ~InvalidBatch /\ ~AllBelowFloor) => outcome = "ok"

\* the reference scan: among the rows with margin >= floor, the lowest
\* position of maximal utility; 0 when no row meets the floor
DirectScan(df, floor) ==
    LET eligible == { i \in 1..Len(df) : df[i].quoted_margin_pct >= floor }
    IN  IF eligible = {} THEN 0
        ELSE Min({ i \in eligible : \A j \in eligible : df[i].utility >= df[j].utility })

(* C12: for every non-empty batch and floor the 0/1 program gives the      *)
(* outcome of the direct scan: it is infeasible exactly when the scan      *)
(* finds no offer, and otherwise it selects the offer the scan finds.      *)
C12_ProgramEqualsDirectScan ==
    (Called /\ Len(offers) >= 1) =>
        LET pick == DirectScan(ScoredInput, margin_floor)
        IN  IF pick = 0
            THEN outcome = "RuntimeError"
            ELSE /\ outcome = "ok"
                 /\ SelectedRows # {}
                 /\ \A k \in SelectedRows : ranked[k].idx = pick - 1

Derived3(row) == <<row.price_delta_pct, row.lead_delta_days, row.quantity_log>>

OneDeal == \A i \in 1..Len(offers) : offers[i].deal_id = offers[1].deal_id

(* C13: for offer rows that all belong to one deal, _add_derived (minimum  *)
(* over the whole batch) gives every row the same price_delta_pct,         *)
(* lead_delta_days and quantity_log as add_derived_columns (minimum per    *)
(* deal_id group).                                                         *)
C13_InferenceDerivationEqualsTraining ==
    (train_fe # <<>> /\ OneDeal) =>
        /\ Len(infer_fe) = Len(offers)
        /\ Len(train_fe) = Len(offers)
        /\ \A i \in 1..Len(offers) : Derived3(infer_fe[i]) = Derived3(train_fe[i])

\* rows of one deal with different prices and lead times, the first row
\* neither the cheapest nor the fastest
C13_Witness ==
    /\ train_fe # <<>>
    /\ OneDeal
    /\ Len(offers) >= 2
    /\ train_fe[1].price_delta_pct > 0
    /\ train_fe[1].lead_delta_days > 0
    /\ train_fe[1].quantity_log > 0

(* C14: after a call on a non-empty batch, applying _add_derived to the    *)
(* already derived batch (as predict_prob does) gives the same             *)
(* price_delta_pct, lead_delta_days and quantity_log as the first          *)
(* application, both applications leave unit_price, lead_time_days and     *)
(* quantity as the caller gave them, and the p_win of a successful call    *)
(* is the estimate for the twice-derived rows.                             *)
C14_DerivationIdempotent ==
    (Called /\ loaded /\ Len(offers) >= 1) =>
        LET once  == Derived
            twice == AddDerived(Derived)
            raw(row) == <<row.unit_price, row.lead_time_days, row.quantity>>
        IN  /\ Len(twice) = Len(offers)
            /\ \A i \in 1..Len(offers) :
                  /\ Derived3(twice[i]) = Derived3(once[i])
                  /\ raw(once[i]) = raw(offers[i])
                  /\ raw(twice[i]) = raw(offers[i])
            /\ outcome = "ok" =>
                  \A k \in Rk :
                     /\ ranked[k].p_win = model[EstimatorKey(twice[ranked[k].idx + 1])]
                     /\ Derived3(ranked[k]) = Derived3(once[ranked[k].idx + 1])
                     /\ raw(ranked[k]) = raw(offers[ranked[k].idx + 1])

\* a scored batch with a dearer and a slower row
C14_Witness ==
    /\ outcome = "ok"
    /\ Len(ranked) >= 2
    /\ \E k \in Rk : ranked[k].price_delta_pct > 0
    /\ \E k \in Rk : ranked[k].lead_delta_days > 0
    /\ \A k \in Rk : ranked[k].quantity_log = Log1p(RfqQuantity)

====
